---- MODULE Spec2Model ----
(***************************************************************************)
(* A model of just-browsing (src/main.go): the document extractor          *)
(* (extractContent / renderHTML), the URL resolver (resolveURL), the ASCII *)
(* rasterizer (imageToASCII) and the navigation controller                 *)
(* (browseInteractive) with its fetch goroutines.                          *)
(*                                                                         *)
(* Strings of the program that are built and taken apart (page text, link  *)
(* text, node data) are sequences of one-token strings: a word, " " or     *)
(* "\n".  URLs are records [host, path]; a reference with host "" is       *)
(* relative, and the empty string is [host |-> "", path |-> ""].           *)
(***************************************************************************)
EXTENDS Integers, Sequences, FiniteSets, TLC

VARIABLES
    \* browseInteractive
    currentURL,   \* var currentURL string            (main.go:278)
    links,        \* var links []LinkInfo             (main.go:279)
    text,         \* the text held by textView        (main.go:273)
    task,         \* the fetch goroutines: position and locals of each
    updates,      \* functions queued with app.QueueUpdateDraw, oldest first
    uiPc,         \* position of the event loop: "idle" or inside an update
    \* extractContent / renderHTML on one document
    doc,          \* the parsed document (*html.Node)
    out,          \* what renderHTML returned for doc, or NoResult
    \* imageToASCII on one decoded image
    img,          \* the decoded image: [w, h, kind]
    y,            \* loop variable y                  (main.go:147)
    ascii,        \* the strings.Builder              (main.go:146)
    sampled,      \* the (origX, origY) read by img.At in the last row
    apc           \* position in imageToASCII

navVars == <<currentURL, links, text, task, updates, uiPc>>
extVars == <<doc, out>>
ascVars == <<img, y, ascii, sampled, apc>>
vars == <<navVars, extVars, ascVars>>

-----------------------------------------------------------------------------
(* Bounds of the model *)

\* nodes below <body> in a generated document
MaxNodes == 4

\* clicks on a link row in one session
MaxClicks == 2

\* height of a decoded image, and width of the narrow ones
MaxDim == 3

-----------------------------------------------------------------------------
(* URLs and resolveURL *)

EmptyRef == [host |-> "", path |-> ""]

\* a string url.Parse rejects
BadURL == [host |-> "%", path |-> "%"]

BaseURL == [host |-> "e.com", path |-> "/page"]

\* resolveURL(baseURL, linkHref): linkHref itself when either fails to parse,
\* else base.ResolveReference(link) for absolute and absolute-path references
resolveURL(baseURL, linkHref) ==
    IF baseURL = BadURL THEN linkHref
    ELSE IF linkHref = BadURL THEN linkHref
    ELSE IF linkHref.host # "" THEN linkHref
    ELSE [host |-> baseURL.host,
          path |-> IF linkHref.path = "" THEN baseURL.path ELSE linkHref.path]

-----------------------------------------------------------------------------
(* Document trees (html.Node) *)

NoAttr == [href |-> EmptyRef, src |-> EmptyRef, alt |-> ""]

TextNode(data) ==
    [Type |-> "text", Data |-> data, Attr |-> NoAttr, Kids |-> <<>>]

Element(tag, attr, kids) ==
    [Type |-> "elem", Data |-> tag, Attr |-> attr, Kids |-> kids]

IsElement(n, tag) == n.Type = "elem" /\ n.Data = tag

Space == {" ", "\n"}

\* strings.TrimSpace
TrimSpace(s) ==
    LET keep == {i \in 1..Len(s) : s[i] \notin Space}
    IN  IF keep = {} THEN <<>>
        ELSE LET lo == CHOOSE i \in keep : \A j \in keep : i <= j
                 hi == CHOOSE i \in keep : \A j \in keep : i >= j
             IN  SubSeq(s, lo, hi)

\* a string as a token sequence: "" is the empty sequence
Str(s) == IF s = "" THEN <<>> ELSE <<s>>

-----------------------------------------------------------------------------
(* extractContent *)

Ret(t, l, i, lc) == [text |-> t, links |-> l, images |-> i, lineCount |-> lc]

RECURSIVE extractFunc(_, _, _, _)
RECURSIVE AnchorChildren(_, _, _, _, _)
RECURSIVE ChildLoop(_, _, _, _)

\* main.go:189-192: the loop over the anchor's children from its i-th pass
\* on, every child called with the anchor's own currentLine; their links and
\* images are dropped, lineCount moves on
AnchorChildren(kids, i, currentLine, lc, cur) ==
    IF i > Len(kids) THEN [text |-> <<>>, lineCount |-> lc]
    ELSE LET c == extractFunc(kids[i], currentLine, lc, cur)
             r == AnchorChildren(kids, i + 1, currentLine, c.lineCount, cur)
         IN  [text |-> c.text \o r.text, lineCount |-> r.lineCount]

\* main.go:233-238: the generic child loop from its i-th pass on, every child
\* called with the value lineCount has when its turn comes
ChildLoop(kids, i, lc, cur) ==
    IF i > Len(kids) THEN Ret(<<>>, <<>>, <<>>, lc)
    ELSE LET c == extractFunc(kids[i], lc, lc, cur)
             r == ChildLoop(kids, i + 1, c.lineCount, cur)
         IN  Ret(c.text \o r.text, c.links \o r.links,
                 c.images \o r.images, r.lineCount)

\* a variant of Children in which an anchor that did not become a link
\* returns without walking its children again
ChildrenUnlessAnchor(n, lc, cur) ==
    IF IsElement(n, "a") THEN Ret(<<>>, <<>>, <<>>, lc)
    ELSE ChildLoop(n.Kids, 1, lc, cur)

\* main.go:233-240, reached by every node that has not returned before: an
\* element that is no link and no image with a src, and so also an anchor
\* whose text or href is empty
Children(n, lc, cur) == ChildLoop(n.Kids, 1, lc, cur)

\* main.go:195: the anchor becomes a link
IsLink(linkText, linkHref) == linkText # <<>> /\ linkHref # EmptyRef

\* main.go:171-241.  lc is the captured variable lineCount on entry; the
\* result carries its value on return.
extractFunc(n, currentLine, lc, cur) ==
    IF IsElement(n, "script") \/ IsElement(n, "style")
    THEN Ret(<<>>, <<>>, <<>>, lc)
    ELSE
    LET a == IF IsElement(n, "a")
             THEN AnchorChildren(n.Kids, 1, currentLine, lc, cur)
             ELSE [text |-> <<>>, lineCount |-> lc]
        linkText == TrimSpace(a.text)
        linkHref == n.Attr.href
    IN  IF IsElement(n, "a") /\ IsLink(linkText, linkHref)
        THEN Ret(linkText \o <<" ">>,
                 << [Text |-> linkText,
                     Href |-> resolveURL(cur, linkHref),
                     Line |-> currentLine] >>,
                 <<>>, a.lineCount)
        ELSE IF IsElement(n, "img") /\ n.Attr.src # EmptyRef
        THEN Ret(Str(n.Attr.alt) \o <<" ">>, <<>>,
                 << [Src |-> resolveURL(cur, n.Attr.src), Alt |-> n.Attr.alt] >>,
                 a.lineCount)
        ELSE IF n.Type = "text"
        THEN IF TrimSpace(n.Data) # <<>>
             THEN Ret(TrimSpace(n.Data) \o <<"\n">>, <<>>, <<>>, a.lineCount + 1)
             ELSE Ret(<<>>, <<>>, <<>>, a.lineCount)
        ELSE Children(n, a.lineCount, cur)

\* main.go:164-245
extractContent(node, cur) ==
    LET r == extractFunc(node, 0, 0, cur)
    IN  [text |-> r.text, links |-> r.links, images |-> r.images]

-----------------------------------------------------------------------------
(* Markup and html.Parse.  A response body is a sequence of tokens: a start *)
(* tag, an end tag (of the innermost open element), or a run of character   *)
(* data.  The parser puts the tokens under html > body, takes img as a void *)
(* element and closes what is still open at the end of the input.           *)

Open(tag, attr) == [k |-> "open", tag |-> tag, attr |-> attr, data |-> <<>>]
Close == [k |-> "close", tag |-> "", attr |-> NoAttr, data |-> <<>>]
Chars(data) == [k |-> "text", tag |-> "", attr |-> NoAttr, data |-> data]

\* markup nested deeper than the parser's limit of 512 open elements
Deep == [k |-> "deep", tag |-> "", attr |-> NoAttr, data |-> <<>>]

RECURSIVE ParseKids(_, _)
\* the sibling nodes that start at toks[i], and the index behind them
ParseKids(toks, i) ==
    IF i > Len(toks) THEN [kids |-> <<>>, next |-> i]
    ELSE LET t == toks[i]
         IN  IF t.k = "close" THEN [kids |-> <<>>, next |-> i + 1]
             ELSE IF t.k = "text"
             THEN LET r == ParseKids(toks, i + 1)
                  IN  [kids |-> <<TextNode(t.data)>> \o r.kids, next |-> r.next]
             ELSE IF t.tag = "img"
             THEN LET r == ParseKids(toks, i + 1)
                  IN  [kids |-> <<Element("img", t.attr, <<>>)>> \o r.kids,
                       next |-> r.next]
             ELSE LET inner == ParseKids(toks, i + 1)
                      r == ParseKids(toks, inner.next)
                  IN  [kids |-> <<Element(t.tag, t.attr, inner.kids)>> \o r.kids,
                       next |-> r.next]

\* html.Parse(strings.NewReader(htmlContent))
Parse(htmlContent) ==
    IF \E i \in 1..Len(htmlContent) : htmlContent[i] = Deep
    THEN [err |-> "html: open stack of elements exceeds 512 nodes",
          root |-> Element("html", NoAttr, <<>>)]
    ELSE [err |-> "",
          root |-> Element("html", NoAttr,
                     << Element("head", NoAttr, <<>>),
                        Element("body", NoAttr, ParseKids(htmlContent, 1).kids) >>)]

RECURSIVE findBody(_, _, _)
\* main.go:257-266: pre-order search; a body is extracted and not searched
\* further; found is bodyText, bodyLinks, bodyImages so far, and a later body
\* overwrites them
findBody(n, cur, found) ==
    IF IsElement(n, "body") THEN extractContent(n, cur)
    ELSE LET Walk[i \in 0..Len(n.Kids)] ==
                 IF i = 0 THEN found ELSE findBody(n.Kids[i], cur, Walk[i - 1])
         IN  Walk[Len(n.Kids)]

\* main.go:247-269
renderHTML(htmlContent, cur) ==
    LET p == Parse(htmlContent)
    IN  IF p.err # ""
        THEN [err |-> "error parsing HTML: " \o p.err,
              text |-> <<>>, links |-> <<>>, images |-> <<>>]
        ELSE LET b == findBody(p.root, cur,
                               [text |-> <<>>, links |-> <<>>, images |-> <<>>])
             IN  [err |-> "", text |-> b.text, links |-> b.links,
                  images |-> b.images]

NoResult == [err |-> "none", text |-> <<>>, links |-> <<>>, images |-> <<>>]

-----------------------------------------------------------------------------
(* Specification SpecExtract: a page is written token by token, and         *)
(* renderHTML is applied to it.  The k-th node of the page carries the data *)
(* "w<k>", "pic<k>", "/l<k>", "/i<k>", so every text node, anchor and image *)
(* of a page has data of its own.                                           *)

Word(k) == "w" \o ToString(k)
LinkRef(k) == [host |-> "", path |-> "/l" \o ToString(k)]
ImgRef(k) == [host |-> "", path |-> "/i" \o ToString(k)]

\* nodes written so far
Nodes(toks) == Cardinality({i \in 1..Len(toks) : toks[i].k # "close"})

\* the tags of the elements open at the end of toks, innermost last
OpenTags(toks) ==
    LET Stack[i \in 0..Len(toks)] ==
            IF i = 0 THEN <<>>
            ELSE IF toks[i].k = "close"
                 THEN SubSeq(Stack[i - 1], 1, Len(Stack[i - 1]) - 1)
            ELSE IF toks[i].k = "open" /\ toks[i].tag # "img"
                 THEN Append(Stack[i - 1], toks[i].tag)
            ELSE Stack[i - 1]
    IN  Stack[Len(toks)]

InScript(toks) ==
    LET st == OpenTags(toks) IN st # <<>> /\ st[Len(st)] = "script"

InAnchor(toks) ==
    LET st == OpenTags(toks) IN \E i \in 1..Len(st) : st[i] = "a"

\* the tokens that can follow toks as its k-th node: character data does not
\* follow character data, a script holds character data only, and an anchor
\* is not opened inside an anchor
NodeTokens(toks, k) ==
    (IF toks # <<>> /\ toks[Len(toks)].k = "text" THEN {}
     ELSE { Chars(<<" ", Word(k), "\n">>), Chars(<<" ", "\n">>) })
    \cup
    (IF InScript(toks) THEN {}
     ELSE { Open("img", [NoAttr EXCEPT !.src = ImgRef(k),
                                       !.alt = "pic" \o ToString(k)]),
            Open("img", [NoAttr EXCEPT !.alt = "pic" \o ToString(k)]),
            Open("div", NoAttr),
            Open("script", NoAttr) })
    \cup
    (IF InScript(toks) \/ InAnchor(toks) THEN {}
     ELSE { Open("a", [NoAttr EXCEPT !.href = LinkRef(k)]),
            Open("a", NoAttr) })

NavQuiet ==
    /\ currentURL = EmptyRef /\ links = <<>> /\ text = <<>>
    /\ task = <<>> /\ updates = <<>> /\ uiPc = "idle"

AsciiQuiet ==
    /\ img = [w |-> 1, h |-> 1, kind |-> "black"]
    /\ y = 0 /\ ascii = <<>> /\ sampled = {} /\ apc = "idle"

InitExtract ==
    /\ doc = <<>>
    /\ out = NoResult
    /\ NavQuiet /\ AsciiQuiet

WriteNode ==
    /\ out = NoResult
    /\ Nodes(doc) < MaxNodes
    /\ \E t \in NodeTokens(doc, Nodes(doc) + 1) : doc' = Append(doc, t)
    /\ UNCHANGED <<out, navVars, ascVars>>

WriteClose ==
    /\ out = NoResult
    /\ OpenTags(doc) # <<>>
    /\ Nodes(doc) < MaxNodes
    /\ doc' = Append(doc, Close)
    /\ UNCHANGED <<out, navVars, ascVars>>

RenderPage ==
    /\ out = NoResult
    /\ out' = renderHTML(doc, BaseURL)
    /\ UNCHANGED <<doc, navVars, ascVars>>

NextExtract == WriteNode \/ WriteClose \/ RenderPage

SpecExtract == InitExtract /\ [][NextExtract]_vars

-----------------------------------------------------------------------------
(* fetchURL and the pages the network serves *)

InitialURL == [host |-> "e.com", path |-> "/page"]

\* <p>Hello</p><a href="/x">link</a><img src="i.png" alt="pic">
PageA ==
    << Open("div", NoAttr), Chars(<<"Hello">>), Close,
       Open("a", [NoAttr EXCEPT !.href = [host |-> "", path |-> "/x"]]),
       Chars(<<"link">>), Close,
       Open("img", [NoAttr EXCEPT !.src = [host |-> "", path |-> "/i.png"],
                                  !.alt = "pic"]) >>

\* <a href="/y">one</a><a href="//f.org/z">two</a>
PageB ==
    << Open("a", [NoAttr EXCEPT !.href = [host |-> "", path |-> "/y"]]),
       Chars(<<"one">>), Close,
       Open("a", [NoAttr EXCEPT !.href = [host |-> "f.org", path |-> "/z"]]),
       Chars(<<"two">>), Close >>

Responses ==
    { [kind |-> "response", status |-> 200, body |-> PageA],
      [kind |-> "response", status |-> 200, body |-> PageB],
      [kind |-> "response", status |-> 200, body |-> <<Deep>>],
      [kind |-> "response", status |-> 404, body |-> <<>>],
      [kind |-> "no connection", status |-> 0, body |-> <<>>],
      [kind |-> "broken body", status |-> 200, body |-> <<>>] }

\* main.go:59-85, with resp what the network does with the request.  (A URL
\* here has no scheme, so the default of main.go:65-67 is not modelled.)
fetchURL(inputURL, resp) ==
    IF inputURL = BadURL
    THEN [err |-> "error parsing URL", body |-> <<>>]
    ELSE IF resp.kind = "no connection"
    THEN [err |-> "error fetching URL", body |-> <<>>]
    ELSE IF resp.status # 200
    THEN [err |-> "bad status: 404 Not Found", body |-> <<>>]
    ELSE IF resp.kind = "broken body"
    THEN [err |-> "error reading response body", body |-> <<>>]
    ELSE [err |-> "", body |-> resp.body]

-----------------------------------------------------------------------------
(* browseInteractive: the event loop, the click handler and the goroutines *)

\* the locals of a goroutine started for the URL href:
\*   fetched       the argument it gave fetchURL        (main.go:303, 330)
\*   base          the argument it gave renderHTML      (main.go:309, 336)
\*   seen          the values written to currentURL that its reads can see
\*   linksAtStart  the value of links when it was started
NewTask(pc, href, seen) ==
    [pc |-> pc, href |-> href, fetched |-> EmptyRef, base |-> EmptyRef,
     htmlContent |-> <<>>, renderedText |-> <<>>, newLinks |-> <<>>,
     seen |-> seen, linksAtStart |-> links]

\* what a read of currentURL that races with the writes of seen can return
TornURL == [host |-> "torn", path |-> "torn"]

\* currentURL is written by the click handler and by the first goroutine and
\* read by goroutines, with nothing ordering the two (main.go:301, 303, 309,
\* 329): a read returns one of the values written since the goroutine
\* started, or, with two of them in play, a torn string
Readable(t) ==
    task[t].seen \cup (IF Cardinality(task[t].seen) > 1 THEN {TornURL} ELSE {})

\* the tasks after currentURL = u, seen by every goroutine that has reads left
Written(u) ==
    [t \in DOMAIN task |->
        IF task[t].pc \in {"fetch", "fetched"}
        THEN [task[t] EXCEPT !.seen = @ \cup {u}]
        ELSE task[t]]

\* a goroutine that has returned holds nothing any more
Returned(pc) ==
    [pc |-> pc, href |-> EmptyRef, fetched |-> EmptyRef, base |-> EmptyRef,
     htmlContent |-> <<>>, renderedText |-> <<>>, newLinks |-> <<>>,
     seen |-> {}, linksAtStart |-> <<>>]

ErrorText(prefix, err) == <<prefix, err>>

IsError(s) ==
    s # <<>> /\ s[1] \in {"Error fetching URL: ", "Error rendering HTML: "}

Init ==
    /\ currentURL = EmptyRef
    /\ links = <<>>
    /\ text = <<>>
    /\ task = << [pc |-> "start", href |-> InitialURL, fetched |-> EmptyRef,
                  base |-> EmptyRef, htmlContent |-> <<>>,
                  renderedText |-> <<>>, newLinks |-> <<>>, seen |-> {},
                  linksAtStart |-> <<>>] >>
    /\ updates = <<>>
    /\ uiPc = "idle"
    /\ doc = <<>> /\ out = NoResult
    /\ AsciiQuiet

\* main.go:329
InitialLoad(t) ==
    /\ task[t].pc = "start"
    /\ currentURL' = task[t].href
    /\ task' = [Written(task[t].href) EXCEPT ![t].pc = "fetch",
                                             ![t].seen = {task[t].href}]
    /\ UNCHANGED <<links, text, updates, uiPc, extVars, ascVars>>

\* A goroutine shares nothing between reading currentURL for a call and the
\* statement after the call, so each call is one step with what follows it.

\* main.go:303-304, 330-331: fetchURL(currentURL) returns the page
Fetch(t) ==
    /\ task[t].pc = "fetch"
    /\ \E u \in Readable(t), resp \in Responses :
         LET r == fetchURL(u, resp)
         IN  /\ r.err = ""
             /\ task' = [task EXCEPT ![t].pc = "fetched", ![t].fetched = u,
                                      ![t].htmlContent = r.body]
    /\ UNCHANGED <<currentURL, links, text, updates, uiPc, extVars, ascVars>>

\* main.go:303-307, 330-334: fetchURL(currentURL) returns an error
FetchFailed(t) ==
    /\ task[t].pc = "fetch"
    /\ \E u \in Readable(t), resp \in Responses :
         LET r == fetchURL(u, resp)
         IN  /\ r.err # ""
             /\ text' = ErrorText("Error fetching URL: ", r.err)
             /\ task' = [task EXCEPT ![t] = Returned("failed")]
    /\ UNCHANGED <<currentURL, links, updates, uiPc, extVars, ascVars>>

\* main.go:309-313, 336-340: renderHTML(htmlContent, currentURL) returns an
\* error
RenderFailed(t) ==
    /\ task[t].pc = "fetched"
    /\ \E u \in Readable(t) :
         LET r == renderHTML(task[t].htmlContent, u)
         IN  /\ r.err # ""
             /\ text' = ErrorText("Error rendering HTML: ", r.err)
             /\ task' = [task EXCEPT ![t] = Returned("failed")]
    /\ UNCHANGED <<currentURL, links, updates, uiPc, extVars, ascVars>>

\* main.go:309-315, 336-342: renderHTML(htmlContent, currentURL) returns the
\* text and the links, and the update is queued with app.QueueUpdateDraw
QueueUpdate(t) ==
    /\ task[t].pc = "fetched"
    /\ \E u \in Readable(t) :
         LET r == renderHTML(task[t].htmlContent, u)
         IN  /\ r.err = ""
             /\ task' = [task EXCEPT ![t].pc = "queued", ![t].base = u,
                                      ![t].renderedText = r.text,
                                      ![t].newLinks = r.links,
                                      ![t].htmlContent = <<>>,
                                      ![t].seen = {}]
    /\ updates' = Append(updates, t)
    /\ UNCHANGED <<currentURL, links, text, uiPc, extVars, ascVars>>

\* a variant of NewLinks that forgets the assignment of main.go:317
KeptLinks(t) == links

\* main.go:317, 344: the value assigned to links
NewLinks(t) == task[t].newLinks

\* main.go:316, 343: the event loop takes the oldest queued update and runs
\* its first statement
UpdateText ==
    /\ uiPc = "idle"
    /\ updates # <<>>
    /\ text' = task[Head(updates)].renderedText
    /\ uiPc' = "update"
    /\ UNCHANGED <<currentURL, links, task, updates, extVars, ascVars>>

\* main.go:317, 344: its second statement, and the update is done
UpdateLinks ==
    /\ uiPc = "update"
    /\ links' = NewLinks(Head(updates))
    /\ task' = [task EXCEPT ![Head(updates)] = Returned("done")]
    /\ updates' = Tail(updates)
    /\ uiPc' = "idle"
    /\ UNCHANGED <<currentURL, text, extVars, ascVars>>

\* main.go:299-300: the first link on the row clicked, as a sequence of at
\* most one link
LinkOnRow(row) ==
    LET on == {i \in 1..Len(links) : links[i].Line = row}
    IN  IF on = {} THEN <<>>
        ELSE <<links[CHOOSE i \in on : \A j \in on : i <= j]>>

\* the rows a click can land on
Rows == 0..2

\* main.go:290-325: a left click on a row that holds a link
Click(row) ==
    /\ uiPc = "idle"
    /\ Len(task) <= MaxClicks
    /\ LinkOnRow(row) # <<>>
    /\ LET link == LinkOnRow(row)[1]
       IN  /\ currentURL' = link.Href
           /\ task' = Append(Written(link.Href),
                             NewTask("fetch", link.Href, {link.Href}))
    /\ UNCHANGED <<links, text, updates, uiPc, extVars, ascVars>>

Next ==
    \/ \E t \in DOMAIN task : InitialLoad(t)
    \/ \E t \in DOMAIN task : Fetch(t)
    \/ \E t \in DOMAIN task : FetchFailed(t)
    \/ \E t \in DOMAIN task : RenderFailed(t)
    \/ \E t \in DOMAIN task : QueueUpdate(t)
    \/ UpdateText
    \/ UpdateLinks
    \/ \E row \in Rows : Click(row)

Spec == Init /\ [][Next]_vars

-----------------------------------------------------------------------------
(* imageToASCII, from the decoded image on (main.go:142-161) *)

\* main.go:31
asciiChars == <<" ", ".", ":", "-", "=", "+", "*", "#", "%", "@">>

\* main.go:143
Width == 80

\* main.go:144
Height(im) == (Width * im.h) \div im.w

Full == 65535

\* img.At(x, y).RGBA() of the images of the model, all of them grey: black,
\* white, a checkerboard, and a ramp from black to white.  A point outside
\* the bounds has the zero colour.
At(im, px, py) ==
    LET grey ==
            IF px < 0 \/ px >= im.w \/ py < 0 \/ py >= im.h THEN 0
            ELSE CASE im.kind = "black"   -> 0
                   [] im.kind = "white"   -> Full
                   [] im.kind = "checker" -> IF (px + py) % 2 = 0 THEN 0 ELSE Full
                   [] OTHER -> IF im.w + im.h = 2 THEN 0
                               ELSE ((px + py) * Full) \div (im.w + im.h - 2)
    IN  [r |-> grey, g |-> grey, b |-> grey]

\* main.go:154-155.  The float64 result is the floor of the exact value for
\* every grey but full white, whose brightness comes out just below 1.
CharIndex(c) ==
    IF c.r = Full /\ c.g = Full /\ c.b = Full THEN 8
    ELSE ((299 * c.r + 587 * c.g + 114 * c.b) * 9) \div (1000 * Full)

\* a variant of OrigY that scales by the width
OrigYByWidth(im, cy) == (cy * im.h) \div Width

\* main.go:149
OrigX(im, cx) == (cx * im.w) \div Width

\* main.go:150
OrigY(im, cy) == (cy * im.h) \div Height(im)

\* main.go:148-158: one row of the output
Row(im, cy) ==
    [i \in 1..Width |->
        asciiChars[CharIndex(At(im, OrigX(im, i - 1), OrigY(im, cy))) + 1]]
    \o <<"\n">>

Images ==
    { [w |-> w, h |-> h, kind |-> k] :
        w \in (1..MaxDim) \cup {Width - 1, Width, Width + 1, MaxDim * Width + 1},
        h \in 1..MaxDim,
        k \in {"black", "white", "checker", "ramp"} }

ExtractQuiet == doc = <<>> /\ out = NoResult

InitAscii ==
    /\ img \in Images
    /\ y = 0
    /\ ascii = <<>>
    /\ sampled = {}
    /\ apc = "loop"
    /\ NavQuiet /\ ExtractQuiet

\* main.go:147-159: one pass of the outer loop
WriteRow ==
    /\ apc = "loop"
    /\ y < Height(img)
    /\ ascii' = ascii \o Row(img, y)
    /\ sampled' = {<<OrigX(img, cx), OrigY(img, y)>> : cx \in 0..(Width - 1)}
    /\ y' = y + 1
    /\ UNCHANGED <<img, apc, navVars, extVars>>

\* main.go:147, 161: the loop ends and the string is returned
Return ==
    /\ apc = "loop"
    /\ y >= Height(img)
    /\ apc' = "done"
    /\ UNCHANGED <<img, y, ascii, sampled, navVars, extVars>>

NextAscii == WriteRow \/ Return

SpecAscii == InitAscii /\ [][NextAscii]_vars

-----------------------------------------------------------------------------
(* Properties of imageToASCII (SpecAscii) *)

\* C9: the result has floor(80 * H / W) rows of 80 ramp characters and a
\* newline each; the cells of every row y are sampled at (floor(x * W / 80),
\* floor(y * H / height)), and every sample lies inside the image.
C9_RowsAndSamples ==
    /\ sampled \subseteq (0..(img.w - 1)) \X (0..(img.h - 1))
    /\ y > 0 =>
          sampled = { <<(cx * img.w) \div 80,
                        ((y - 1) * img.h) \div ((80 * img.h) \div img.w)>> :
                        cx \in 0..79 }
    /\ apc = "done" =>
          /\ Len(ascii) = (Width + 1) * ((80 * img.h) \div img.w)
          /\ \A i \in 1..Len(ascii) :
                IF i % (Width + 1) = 0
                THEN ascii[i] = "\n"
                ELSE \E c \in 1..10 : ascii[i] = asciiChars[c]

\* an image taller than wide was drawn whole, its last row sampled from the
\* last row of the image
C9_Witness ==
    /\ apc = "done"
    /\ img.h > img.w /\ img.w > 1
    /\ Len(ascii) > (Width + 1) * Width
    /\ \E p \in sampled : p[2] = img.h - 1 /\ p[1] = img.w - 1

-----------------------------------------------------------------------------
(* Properties of navigation (Spec) *)

\* every URL a goroutine can hand to renderHTML
AnyURL ==
    { [host |-> h, path |-> p] :
        h \in {"e.com", "f.org", "torn"},
        p \in {"/page", "/x", "/y", "/z", "torn"} }

\* the (text, links) pairs one call of renderHTML can return
Renderings ==
    { [text |-> r.text, links |-> r.links] :
        r \in { renderHTML(b, u) : b \in {PageA, PageB}, u \in AnyURL } }

\* C1: whenever the click handler can run and the text shown is a page's
\* text, the links are the links of the same fetch and extract cycle: text and
\* links are the two results of one call of renderHTML.
C1_TextAndLinksOfOneCycle ==
    uiPc = "idle" /\ ~IsError(text) /\ text # <<>> =>
        [text |-> text, links |-> links] \in Renderings

\* a page is shown with its links after two cycles were applied, while a third
\* cycle with other links waits in the queue
C1_Witness ==
    /\ uiPc = "idle" /\ ~IsError(text) /\ links # <<>>
    /\ Cardinality({t \in DOMAIN task : task[t].pc = "done"}) >= 2
    /\ \E t \in DOMAIN task :
          /\ task[t].pc = "queued"
          /\ task[t].newLinks # links
          /\ task[t].renderedText # text

\* C3: a navigation that fails replaces the text by an error message and
\* leaves the links as they were before the navigation was started.
C3_FailureKeepsLinksOfStart ==
    [][ \A t \in DOMAIN task :
            task[t].pc \in {"fetch", "fetched"} /\ task'[t].pc = "failed" =>
                IsError(text') /\ links' = task[t].linksAtStart ]_vars

\* the step in which a goroutine fails does not write links
FailureStepKeepsLinks ==
    [][ \A t \in DOMAIN task :
            task[t].pc \in {"fetch", "fetched"} /\ task'[t].pc = "failed" =>
                IsError(text') /\ links' = links ]_vars

\* C4: currentURL and links change only in the step that applies the result
\* of a completed, successful cycle.
C4_StateChangesOnlyOnApply ==
    [][ currentURL' # currentURL \/ links' # links =>
            uiPc = "update" /\ uiPc' = "idle" ]_vars

InFlight(t) == task[t].pc \in {"start", "fetch", "fetched"}

\* C8: at most one fetch and extract cycle is in flight at any time.
C8_AtMostOneInFlight ==
    Cardinality({t \in DOMAIN task : InFlight(t)}) <= 1

\* C10: a goroutine fetches the URL it was started for, and resolves the
\* page's links against that same URL.
C10_TaskUsesItsOwnURL ==
    \A t \in DOMAIN task :
        /\ task[t].pc \in {"fetched", "queued"} => task[t].fetched = task[t].href
        /\ task[t].pc = "queued" => task[t].base = task[t].href

-----------------------------------------------------------------------------
(* Properties of extraction (SpecExtract) *)

RenderDone == out # NoResult /\ out.err = ""

Body == Parse(doc).root.Kids[2]

RECURSIVE PreOrder(_)
\* the nodes of a subtree in document order
PreOrder(n) ==
    LET Below[i \in 0..Len(n.Kids)] ==
            IF i = 0 THEN <<>> ELSE Below[i - 1] \o PreOrder(n.Kids[i])
    IN  <<n>> \o Below[Len(n.Kids)]

RECURSIVE Visible(_)
\* the nodes of a subtree in document order, without what lies under a
\* script or style element
Visible(n) ==
    IF IsElement(n, "script") \/ IsElement(n, "style") THEN <<n>>
    ELSE LET Below[i \in 0..Len(n.Kids)] ==
                 IF i = 0 THEN <<>> ELSE Below[i - 1] \o Visible(n.Kids[i])
         IN  <<n>> \o Below[Len(n.Kids)]

IsText(n) == n.Type = "text" /\ TrimSpace(n.Data) # <<>>

\* the number of "\n" in s before index i
NewlinesBefore(s, i) == Cardinality({j \in 1..(i - 1) : s[j] = "\n"})

\* the zero-based row of the text on which the token w first stands
RowOf(s, w) ==
    LET at == {i \in 1..Len(s) : s[i] = w}
    IN  NewlinesBefore(s, CHOOSE i \in at : \A j \in at : i <= j)

\* C2: every link's Line is the zero-based row of the returned text on which
\* the link's display text stands.
C2_LineIsRow ==
    RenderDone =>
        \A i \in 1..Len(out.links) :
            out.links[i].Line = RowOf(out.text, out.links[i].Text[1])

\* the position in Visible(Body) of the anchor a link was made from
AnchorAt(link) ==
    LET v == Visible(Body)
    IN  CHOOSE p \in 1..Len(v) :
            /\ IsElement(v[p], "a")
            /\ v[p].Attr.href # EmptyRef
            /\ resolveURL(BaseURL, v[p].Attr.href) = link.Href

\* the non-empty text nodes the traversal meets before position p
TextNodesBefore(p) ==
    LET v == Visible(Body)
    IN  Cardinality({q \in 1..(p - 1) : IsText(v[q])})

\* C6: every link's Line is the number of non-empty text nodes that come
\* before its anchor in pre-order, each counted once.
C6_LineIsTextNodesBefore ==
    RenderDone =>
        \A i \in 1..Len(out.links) :
            out.links[i].Line = TextNodesBefore(AnchorAt(out.links[i]))

\* the img elements with a src, in document order
ImagesOf(n) ==
    LET v == Visible(n)
    IN  SelectSeq(v, LAMBDA m : IsElement(m, "img") /\ m.Attr.src # EmptyRef)

ExpectedImage(m) == [Src |-> resolveURL(BaseURL, m.Attr.src), Alt |-> m.Attr.alt]

\* C7: the image list holds exactly one ImageInfo for every img with a src
\* in the body and outside script and style, in document order, also for an
\* img below an anchor.
C7_EveryImageListed ==
    RenderDone =>
        LET imgs == ImagesOf(Body)
        IN  out.images = [i \in 1..Len(imgs) |-> ExpectedImage(imgs[i])]

\* an anchor that does not become a link: its trimmed text or its href is empty
FailedAnchor(n) ==
    /\ IsElement(n, "a")
    /\ \/ n.Attr.href = EmptyRef
       \/ TrimSpace(AnchorChildren(n.Kids, 1, 0, 0, BaseURL).text) = <<>>

\* the count of C6 holds on every page in which no anchor that fails to
\* become a link holds a non-empty text node: such text nodes are walked, and
\* counted, twice (main.go:189-192 and then main.go:233-238)
LineIsTextNodesBeforeWithoutRewalk ==
    RenderDone /\ (\A p \in 1..Len(Visible(Body)) :
                      FailedAnchor(Visible(Body)[p]) =>
                          \A q \in 1..Len(Visible(Visible(Body)[p])) :
                              ~IsText(Visible(Visible(Body)[p])[q]))
        => \A i \in 1..Len(out.links) :
               out.links[i].Line = TextNodesBefore(AnchorAt(out.links[i]))

\* the words, link targets and image sources that stand in a subtree
WordsIn(n) ==
    LET v == PreOrder(n)
    IN  UNION { IF v[i].Type = "text"
                THEN {v[i].Data[j] : j \in 1..Len(v[i].Data)} \ Space
                ELSE IF IsElement(v[i], "img") THEN {v[i].Attr.alt} ELSE {}
                : i \in 1..Len(v) }

SourcesIn(n) ==
    LET v == PreOrder(n)
    IN  {resolveURL(BaseURL, v[i].Attr.src) : i \in {j \in 1..Len(v) : IsElement(v[j], "img")}}

TargetsIn(n) ==
    LET v == PreOrder(n)
    IN  {resolveURL(BaseURL, v[i].Attr.href) : i \in {j \in 1..Len(v) : IsElement(v[j], "a")}}

Contributes(n) ==
    \/ \E i \in 1..Len(out.text) : out.text[i] \in WordsIn(n)
    \/ \E i \in 1..Len(out.links) : out.links[i].Href \in TargetsIn(n)
    \/ \E i \in 1..Len(out.images) : out.images[i].Src \in SourcesIn(n)

RECURSIVE AsContainer(_)
\* the tree with every anchor that does not become a link made a div
AsContainer(n) ==
    [n EXCEPT !.Data = IF FailedAnchor(n) THEN "div" ELSE @,
              !.Kids = [i \in 1..Len(n.Kids) |-> AsContainer(n.Kids[i])]]

====
